---- MODULE Spec2Model ----
(***************************************************************************)
(* A model of the deductive chart parser of parser/parser.py:             *)
(* Parser.parse (the agenda loop), Parser.successful_parse (the goal      *)
(* test), cky_chart (forest extraction) and the two generator entry       *)
(* points parse_graphs / parse_strings.                                    *)
(*                                                                         *)
(* The item classes CfgItem, HergItem, CfgHergItem and the Rule class are *)
(* imported by parser.py from item.py / rule.py; their behaviour is       *)
(* modelled from the design document (sections 3 and 4.1).                 *)
(***************************************************************************)
EXTENDS Integers, Sequences, FiniteSets, Bags, TLC

(***************************************************************************)
(* Bounds of the model.                                                    *)
(***************************************************************************)
\* largest number of rules in a grammar
MaxRules == 2
\* longest input string
MaxLen == 3
\* longest stream of graphs handed to parse_graphs
MaxInputs == 2

(***************************************************************************)
(* Symbols, rules and inputs.                                              *)
(***************************************************************************)
\* "PARTIAL" is the symbol of the intermediate rules of a binarized grammar
Nonterminals == {"S", "A", "PARTIAL"}
Words == {"a", "b"}
start_symbol == "S"

\* a terminal or nonterminal edge of a rule's right-hand-side graph, over
\* the rule's node variables 1 (external source), 2 (external target), 3
RE(lab, src, tgt) == [lab |-> lab, src |-> src, tgt |-> tgt]
\* an edge of an input graph, a triple of graph.triples()
GE(lab, src, tgt) == [lab |-> lab, src |-> src, tgt |-> tgt]

Rule(id, symbol, string, edges) ==
  [id |-> id, symbol |-> symbol, string |-> string, edges |-> edges]

\* string rules (rule.string only)
StringRules ==
  { Rule(1, "S", <<"A", "A">>, <<>>),
    Rule(2, "A", <<"a">>, <<>>),
    Rule(3, "S", <<"S", "S">>, <<>>),
    Rule(4, "S", <<"a">>, <<>>),
    Rule(5, "S", <<"A">>, <<>>),
    Rule(6, "A", <<"S">>, <<>>),
    Rule(7, "S", <<"S">>, <<>>),
    Rule(8, "A", <<>>, <<>>),
    Rule(9, "S", <<"A", "b">>, <<>>),
    Rule(10, "S", <<"a", "A">>, <<>>),
    Rule(11, "S", <<"PARTIAL", "b">>, <<>>),
    Rule(12, "PARTIAL", <<"a", "a">>, <<>>) }

\* graph rules (right-hand-side graph only, edges in visit order)
GraphRules ==
  { Rule(21, "S", <<>>, <<RE("e", 1, 2)>>),
    Rule(22, "S", <<>>, <<RE("e", 1, 3), RE("S", 3, 2)>>),
    Rule(23, "S", <<>>, <<RE("A", 1, 3), RE("A", 3, 2)>>),
    Rule(24, "A", <<>>, <<RE("e", 1, 2)>>),
    Rule(25, "A", <<>>, <<RE("f", 1, 2)>>),
    Rule(26, "S", <<>>, <<RE("A", 1, 2)>>),
    Rule(27, "A", <<>>, <<RE("e", 1, 2)>>),
    Rule(28, "S", <<>>, <<RE("e", 1, 2), RE("A", 1, 2)>>),
    Rule(29, "S", <<>>, <<RE("e", 1, 2)>>) }

\* synchronous rules (string and graph side, the same nonterminals in the
\* same order on both sides)
SyncRules ==
  { Rule(41, "S", <<"a">>, <<RE("e", 1, 2)>>),
    Rule(42, "S", <<"A", "A">>, <<RE("A", 1, 3), RE("A", 3, 2)>>),
    Rule(43, "A", <<"a">>, <<RE("e", 1, 2)>>),
    Rule(44, "S", <<"a", "A">>, <<RE("e", 1, 3), RE("A", 3, 2)>>),
    Rule(45, "A", <<"b">>, <<RE("f", 1, 2)>>),
    Rule(46, "S", <<"A">>, <<RE("A", 1, 2)>>),
    Rule(47, "S", <<"A", "b">>, <<RE("e", 1, 3), RE("A", 3, 2)>>) }

RECURSIVE SubsetsUpTo(_, _)
SubsetsUpTo(S, k) ==
  IF k = 0 THEN {{}}
  ELSE LET smaller == SubsetsUpTo(S, k - 1)
       IN  smaller \cup { g \cup {r} : g \in smaller, r \in S }

Grammars(pool) == SubsetsUpTo(pool, MaxRules) \ {{}}

Strings == UNION { [1..n -> Words] : n \in 1..MaxLen }

Nodes == {1, 2, 3}
NoGraph == {}
NoString == <<>>
Graphs ==
  { {GE("e", 1, 2)},
    {GE("e", 1, 2), GE("e", 2, 3)},
    {GE("e", 1, 2), GE("f", 2, 3)} }

Input(string, graph) == [string |-> string, graph |-> graph]

GraphStreams ==
  UNION { [1..n -> {Input(NoString, g) : g \in Graphs}] : n \in 1..MaxInputs }
StringStreams ==
  { <<Input(s, NoGraph)>> : s \in { t \in Strings : Len(t) <= 2 } }
SyncInputs ==
  { Input(s, g) : s \in { t \in Strings : Len(t) <= 2 }, g \in Graphs }

(***************************************************************************)
(* Item algebra (design document, sections 3 and 4.1).                     *)
(*   kind     the item class: "cfg", "herg" or "sync"                      *)
(*   sdot     number of elements of rule.string consumed                   *)
(*   i, j     the span [i, j) consumed, -1, -1 while nothing is consumed   *)
(*   gdot     number of rule edges consumed                                *)
(*   shifted  the input edges matched so far                               *)
(*   nmap     rule node variable -> input node, 0 while unbound            *)
(***************************************************************************)
NoNodes == [v \in Nodes |-> 0]

Axiom(kind, rule) ==
  [kind |-> kind, rule |-> rule, sdot |-> 0, i |-> -1, j |-> -1,
   gdot |-> 0, shifted |-> {}, nmap |-> NoNodes]

\* the sentinel goal key 'START'
StartRule == Rule(0, "START", <<>>, <<>>)
START == Axiom("goal", StartRule)

StringClosed(it) == it.sdot = Len(it.rule.string)
GraphClosed(it) == it.gdot = Len(it.rule.edges)

\* a graph item built over a rule whose right-hand side is a string (what
\* parse builds when it is handed an empty string and no graph): nothing of
\* the right-hand side is matched, and the next unmatched element is the
\* first element of the string
Misfit(it) ==
  it.kind = "herg" /\ it.rule.edges = <<>> /\ it.rule.string # <<>>

closed(it) ==
  CASE it.kind = "cfg" -> StringClosed(it)
    [] it.kind = "herg" -> GraphClosed(it) /\ ~Misfit(it)
    [] it.kind = "sync" -> StringClosed(it) /\ GraphClosed(it)
    [] OTHER -> FALSE

outside_word(it) == it.rule.string[it.sdot + 1]
outside_redge(it) == it.rule.edges[it.gdot + 1]
outside_edge(it) == outside_redge(it).lab

WordIsNonterminal(it) ==
  ~StringClosed(it) /\ outside_word(it) \in Nonterminals
EdgeIsNonterminal(it) ==
  ~GraphClosed(it) /\ outside_edge(it) \in Nonterminals

\* synchronous items: the string side has no word to shift next
outside_word_is_nonterminal(it) ==
  StringClosed(it) \/ outside_word(it) \in Nonterminals
outside_edge_is_nonterminal(it) ==
  GraphClosed(it) \/ outside_edge(it) \in Nonterminals

outside_is_nonterminal(it) ==
  CASE it.kind = "cfg" -> WordIsNonterminal(it)
    [] it.kind = "herg" -> IF Misfit(it) THEN WordIsNonterminal(it)
                           ELSE EdgeIsNonterminal(it)
    [] it.kind = "sync" -> WordIsNonterminal(it) /\ EdgeIsNonterminal(it)
    [] OTHER -> FALSE

outside_symbol(it) ==
  IF it.kind = "herg" /\ ~Misfit(it) THEN outside_edge(it) ELSE outside_word(it)

\* the labels of a rule's right-hand-side edges, in visit order
EdgeLabels(rule) == [n \in 1..Len(rule.edges) |-> rule.edges[n].lab]

\* the number of nonterminal slots among the first n elements
NtBefore(labels, n) ==
  Cardinality({ p \in 1..n : labels[p] \in Nonterminals })

\* the index that tells repeated occurrences of a symbol apart: nonterminal
\* slots are numbered from 0 in right-hand-side order
outside_nt_index(it) ==
  IF it.kind = "herg" THEN NtBefore(EdgeLabels(it.rule), it.gdot)
  ELSE NtBefore(it.rule.string, it.sdot)

\* string side ---------------------------------------------------------
can_shift_word(it, word, index) ==
  /\ ~StringClosed(it)
  /\ outside_word(it) = word
  /\ (it.i = -1 \/ it.j = index)

shift_word(it, word, index) ==
  [it EXCEPT !.sdot = @ + 1,
             !.i = IF it.i = -1 THEN index ELSE @,
             !.j = index + 1]

CanCompleteString(it, cand) ==
  it.i = -1 \/ cand.i = -1 \/ it.j = cand.i

CompleteString(it, cand) ==
  [it EXCEPT !.sdot = @ + 1,
             !.i = IF it.i = -1 THEN cand.i ELSE @,
             !.j = IF cand.i = -1 THEN @ ELSE cand.j]

\* graph side ----------------------------------------------------------
Bindable(nmap, var, node) == nmap[var] = 0 \/ node = 0 \/ nmap[var] = node
Bind(nmap, var, node) ==
  IF node = 0 THEN nmap ELSE [nmap EXCEPT ![var] = node]

CanMatch(nmap, re, src, tgt) ==
  /\ Bindable(nmap, re.src, src)
  /\ Bindable(Bind(nmap, re.src, src), re.tgt, tgt)
Match(nmap, re, src, tgt) == Bind(Bind(nmap, re.src, src), re.tgt, tgt)

can_shift_edge(it, edge) ==
  /\ ~GraphClosed(it)
  /\ outside_edge(it) = edge.lab
  /\ edge \notin it.shifted
  /\ CanMatch(it.nmap, outside_redge(it), edge.src, edge.tgt)

shift_edge(it, edge) ==
  [it EXCEPT !.gdot = @ + 1,
             !.shifted = @ \cup {edge},
             !.nmap = Match(it.nmap, outside_redge(it), edge.src, edge.tgt)]

CanCompleteGraph(it, cand) ==
  /\ it.shifted \cap cand.shifted = {}
  /\ CanMatch(it.nmap, outside_redge(it), cand.nmap[1], cand.nmap[2])

CompleteGraph(it, cand) ==
  [it EXCEPT !.gdot = @ + 1,
             !.shifted = @ \cup cand.shifted,
             !.nmap = Match(it.nmap, outside_redge(it),
                            cand.nmap[1], cand.nmap[2])]

\* the shared contract --------------------------------------------------
can_complete(it, cand) ==
  /\ closed(cand)
  /\ ~Misfit(it)
  /\ outside_is_nonterminal(it)
  /\ cand.rule.symbol = outside_symbol(it)
  /\ CASE it.kind = "cfg" -> CanCompleteString(it, cand)
       [] it.kind = "herg" -> CanCompleteGraph(it, cand)
       [] OTHER -> CanCompleteString(it, cand) /\ CanCompleteGraph(it, cand)

complete(it, cand) ==
  CASE it.kind = "cfg" -> CompleteString(it, cand)
    [] it.kind = "herg" -> CompleteGraph(it, cand)
    [] OTHER -> CompleteGraph(CompleteString(it, cand), cand)


(***************************************************************************)
(* State.                                                                  *)
(***************************************************************************)
VARIABLES
  entry,               \* the entry point called: "parse_graphs", "parse_strings" or "parse"
                       \* ("none" before the call)
  inputs,              \* history: everything the input iterator holds at the call
  grammar,             \* self.grammar: the set of rules
  stream,              \* the inputs the iterator has not handed out yet
  string, graph,       \* the arguments of the running parse call
  pc,                  \* "new", "ready", "loop", "parsed", "done" or "raised"
  raised,              \* the exception that ended the call, "none" otherwise
  queue, pending, visited, attempted,
  chart,               \* the raw chart: a set of [key, prod]
  nonterminal_lookup,  \* closed items, looked up by item.rule.symbol
  reverse_lookup,      \* open items, looked up by item.outside_symbol
  success,
  calls,               \* history: the bag of pairs can_complete was evaluated on
  woken,               \* history: a visited item was re-enqueued by a wake-up
  skipped,             \* history: a pair was passed over because already attempted
  yielded              \* the forests handed to the caller, in order

vars ==
  <<entry, inputs, grammar, stream, string, graph, pc, raised, queue,
    pending, visited, attempted, chart, nonterminal_lookup, reverse_lookup,
    success, calls, woken, skipped, yielded>>

engine ==
  <<queue, pending, visited, attempted, chart, nonterminal_lookup,
    reverse_lookup, success, calls, woken, skipped>>

Range(seq) == { seq[n] : n \in 1..Len(seq) }

RECURSIVE Listed(_)
Listed(S) ==
  IF S = {} THEN <<>>
  ELSE LET x == CHOOSE y \in S : TRUE IN <<x>> \o Listed(S \ {x})

Reversed(seq) == [n \in 1..Len(seq) |-> seq[Len(seq) + 1 - n]]

\* the orders in which an unordered set is iterated: the model follows two
\* of them at every iteration, one listing of the set and its reverse
Orderings(S) == { Listed(S), Reversed(Listed(S)) }

\* chart[key]
ChartAt(ch, key) == { e.prod : e \in { x \in ch : x.key = key } }
Entry(key, prod) == [key |-> key, prod |-> prod]

\* the item class of the axioms
axiom_class(str, gr) ==
  IF str # NoString /\ gr # NoGraph THEN "sync"
  ELSE IF str # NoString THEN "cfg"
  ELSE "herg"

string_size(str) == IF str # NoString THEN Len(str) ELSE -1
graph_size(gr) == IF gr # NoGraph THEN Cardinality(gr) ELSE -1

\* faulty variant: string indices counted from 1
word_terminal_lookup_from_one(str, word) ==
  { index \in 1..Len(str) : str[index] = word }

\* word -> the string indices (from 0) that hold it
word_terminal_lookup(str, word) ==
  { index \in 0..(Len(str) - 1) : str[index + 1] = word }
\* edge label -> the graph edges that carry it
edge_terminal_lookup(gr, label) == { edge \in gr : edge.lab = label }

(***************************************************************************)
(* Parser.successful_parse                                                 *)
(***************************************************************************)
\* faulty variant: the goal test without the coverage check
successful_parse_symbol_only(str, gr, item, ssize, gsize) ==
  start_symbol = item.rule.symbol

successful_parse(str, gr, item, ssize, gsize) ==
  IF start_symbol # item.rule.symbol THEN FALSE
  ELSE IF str # NoString /\ gr # NoGraph
       THEN /\ item.j - item.i = ssize
            /\ Cardinality(item.shifted) = gsize
  ELSE IF str # NoString THEN item.j - item.i = ssize
  ELSE Cardinality(item.shifted) = gsize

(***************************************************************************)
(* Parser.parse: the pieces of one iteration of the agenda loop.           *)
(***************************************************************************)
\* faulty variant: only `pending` is looked at
IsNewNotPending(nitem, pend, vis) == nitem \notin pend

\* an item is appended to the queue only if it is neither pending nor visited
IsNew(nitem, pend, vis) == nitem \notin pend /\ nitem \notin vis

\* faulty variant: wakes the items of the same left-hand symbol instead of the
\* items waiting on it
WakeUpSameSymbol(rl, item, pend) ==
  { ritem \in rl : ritem.rule.symbol = item.rule.symbol /\ ritem \notin pend }

\* faulty variant: looks the symbol up in the index of closed items instead of the
\* index of waiting items
WakeUpClosedIndex(rl, item, pend) ==
  { ritem \in nonterminal_lookup \cup {item} :
      ritem.rule.symbol = item.rule.symbol /\ ritem \notin pend }

\* faulty variant: items that were visited before are left asleep
WakeUpUnvisited(rl, item, pend) ==
  { ritem \in rl : /\ outside_symbol(ritem) = item.rule.symbol
                    /\ ritem \notin pend
                    /\ ritem \notin visited }

\* closed item: the items waiting on its symbol that are re-appended
WakeUp(rl, item, pend) ==
  { ritem \in rl : outside_symbol(ritem) = item.rule.symbol /\ ritem \notin pend }

\* faulty variant: an item that was tried with some candidate is not tried
\* with any other
CandidatesOncePerItem(ntl, item, att) ==
  { oitem \in ntl : /\ oitem.rule.symbol = outside_symbol(item)
                    /\ \A pair \in att : pair[1] # item }

\* faulty variant: no look at `attempted`
CandidatesUnmemoized(ntl, item, att) ==
  { oitem \in ntl : oitem.rule.symbol = outside_symbol(item) }

\* open item before a nonterminal: the closed items it is tested against
Candidates(ntl, item, att) ==
  { oitem \in ntl : /\ oitem.rule.symbol = outside_symbol(item)
                    /\ <<item, oitem>> \notin att }

\* ... and those passed over because the pair was attempted before
Skipped(ntl, item, att) ==
  { oitem \in ntl : /\ oitem.rule.symbol = outside_symbol(item)
                    /\ <<item, oitem>> \in att }

\* faulty variant: completes with every candidate, can_complete is not asked
CompletableUntested(item, tried) == tried

\* the candidates that pass item.can_complete
Completable(item, tried) == { oitem \in tried : can_complete(item, oitem) }

\* faulty variant: the new item is recorded as its own first antecedent
CompleteEntryLooping(item, oitem) ==
  Entry(complete(item, oitem), <<complete(item, oitem), oitem>>)

\* faulty variant: the closed antecedent is recorded twice
CompleteEntryTriple(item, oitem) ==
  Entry(complete(item, oitem), <<item, oitem, oitem>>)

\* faulty variant: records the new item in place of the closed antecedent
CompleteEntrySelf(item, oitem) ==
  Entry(complete(item, oitem), <<item, complete(item, oitem)>>)

\* the production recorded for a successful completion, with its key
CompleteEntry(item, oitem) == Entry(complete(item, oitem), <<item, oitem>>)

\* faulty variant: shifts every looked-up terminal without asking can_shift
ShiftItemsUnchecked(item, str, gr) ==
  IF str # NoString /\ (gr = NoGraph \/ ~outside_word_is_nonterminal(item))
  THEN { shift_word(item, outside_word(item), index) :
           index \in word_terminal_lookup(str, outside_word(item)) }
  ELSE { shift_edge(item, edge) :
           edge \in edge_terminal_lookup(gr, outside_edge(item)) }

\* open item before a terminal: the items obtained by shifting
ShiftItems(item, str, gr) ==
  IF str # NoString /\ gr # NoGraph
  THEN IF ~outside_word_is_nonterminal(item)
       THEN { shift_word(item, outside_word(item), index) :
                index \in { x \in word_terminal_lookup(str, outside_word(item)) :
                              can_shift_word(item, outside_word(item), x) } }
       ELSE { shift_edge(item, edge) :
                edge \in { x \in edge_terminal_lookup(gr, outside_edge(item)) :
                             can_shift_edge(item, x) } }
  ELSE IF str # NoString
  THEN { shift_word(item, outside_word(item), index) :
           index \in { x \in word_terminal_lookup(str, outside_word(item)) :
                         can_shift_word(item, outside_word(item), x) } }
  ELSE { shift_edge(item, edge) :
           edge \in { x \in edge_terminal_lookup(gr, outside_edge(item)) :
                        can_shift_edge(item, x) } }

\* the assertions of the shift branch: the synchronous branch asserts that
\* the edge side has a terminal next when the string side has none, the
\* last branch (no string) asserts that there is a graph
ShiftAssertionHolds(item, str, gr) ==
  /\ (str # NoString /\ gr # NoGraph /\ outside_word_is_nonterminal(item))
       => ~outside_edge_is_nonterminal(item)
  /\ str = NoString => gr # NoGraph

(***************************************************************************)
(* Parser.parse: setup (everything before the loop).                       *)
(***************************************************************************)
ParseBegin ==
  /\ pc = "ready"
  /\ entry \in {"parse_graphs", "parse"}
  /\ stream # <<>>
  /\ LET input == Head(stream)
         axioms == { Axiom(axiom_class(input.string, input.graph), rule) :
                       rule \in grammar }
     IN  /\ string' = input.string
         /\ graph' = input.graph
         /\ stream' = Tail(stream)
         /\ \E order \in Orderings(axioms) : queue' = order
         /\ pending' = axioms
         /\ reverse_lookup' = { ax \in axioms : outside_is_nonterminal(ax) }
  /\ attempted' = {}
  /\ visited' = {}
  /\ chart' = {}
  /\ nonterminal_lookup' = {}
  /\ success' = FALSE
  /\ calls' = EmptyBag
  /\ woken' = FALSE
  /\ skipped' = FALSE
  /\ pc' = "loop"
  /\ UNCHANGED <<entry, inputs, grammar, raised, yielded>>

(***************************************************************************)
(* Parser.parse: one iteration of `while queue`, by branch.                *)
(***************************************************************************)
HandleClosed ==
  /\ pc = "loop" /\ queue # <<>>
  /\ LET item == Head(queue)
         pend == pending \ {item}
         goal == successful_parse(string, graph, item,
                                  string_size(string), graph_size(graph))
         waking == WakeUp(reverse_lookup, item, pend)
     IN  /\ closed(item)
         /\ visited' = visited \cup {item}
         /\ chart' = IF goal THEN chart \cup {Entry(START, <<item>>)} ELSE chart
         /\ success' = (success \/ goal)
         /\ nonterminal_lookup' = nonterminal_lookup \cup {item}
         /\ \E order \in Orderings(waking) : queue' = Tail(queue) \o order
         /\ pending' = pend \cup waking
         /\ woken' = (woken \/ waking # {})
  /\ UNCHANGED <<entry, inputs, grammar, stream, string, graph, pc, raised,
                 attempted, reverse_lookup, calls, skipped, yielded>>

HandleComplete ==
  /\ pc = "loop" /\ queue # <<>>
  /\ LET item == Head(queue)
         pend == pending \ {item}
         vis == visited \cup {item}
         tried == Candidates(nonterminal_lookup, item, attempted)
         made == { CompleteEntry(item, oitem) : oitem \in Completable(item, tried) }
         fresh == { e.key : e \in { x \in made : IsNew(x.key, pend, vis) } }
     IN  /\ ~closed(item)
         /\ outside_is_nonterminal(item)
         /\ visited' = vis
         /\ reverse_lookup' = reverse_lookup \cup {item}
         /\ attempted' = attempted \cup { <<item, oitem>> : oitem \in tried }
         /\ calls' = calls (+) SetToBag({ <<item, oitem>> : oitem \in tried })
         /\ skipped' = (skipped \/ Skipped(nonterminal_lookup, item, attempted) # {})
         /\ chart' = chart \cup made
         /\ \E order \in Orderings(fresh) : queue' = Tail(queue) \o order
         /\ pending' = pend \cup fresh
  /\ UNCHANGED <<entry, inputs, grammar, stream, string, graph, pc, raised,
                 nonterminal_lookup, success, woken, yielded>>

HandleShift ==
  /\ pc = "loop" /\ queue # <<>>
  /\ LET item == Head(queue)
         pend == pending \ {item}
         vis == visited \cup {item}
         new_items == ShiftItems(item, string, graph)
         fresh == { nitem \in new_items : IsNew(nitem, pend, vis) }
     IN  /\ ~closed(item)
         /\ ~outside_is_nonterminal(item)
         /\ visited' = vis
         /\ IF ShiftAssertionHolds(item, string, graph)
            THEN /\ chart' = chart \cup { Entry(nitem, <<item>>) : nitem \in new_items }
                 /\ \E order \in Orderings(fresh) : queue' = Tail(queue) \o order
                 /\ pending' = pend \cup fresh
                 /\ UNCHANGED <<pc, raised>>
            ELSE /\ queue' = Tail(queue)
                 /\ pending' = pend
                 /\ pc' = "raised"
                 /\ raised' = "AssertionError"
                 /\ UNCHANGED chart
  /\ UNCHANGED <<entry, inputs, grammar, stream, string, graph, attempted,
                 nonterminal_lookup, reverse_lookup, success, calls, woken,
                 skipped, yielded>>

\* the loop ends and parse returns the chart
ParseReturn ==
  /\ pc = "loop" /\ queue = <<>>
  /\ pc' = "parsed"
  /\ UNCHANGED <<entry, inputs, grammar, stream, string, graph, raised, yielded>>
  /\ UNCHANGED engine

(***************************************************************************)
(* cky_chart: forest extraction.                                           *)
(* A forest is a set of [key, prods]; prods (real_productions) is a set of *)
(* [slot, fillers], one per key of the dictionary.                         *)
(***************************************************************************)
Slot(sym, idx) == [sym |-> sym, idx |-> idx]
StartSlot == Slot("START", 0)

Outcome(exc, value) == [exc |-> exc, value |-> value]

\* real_productions[slot] = fillers
Put(rp, slot, fillers) ==
  { e \in rp : e.slot # slot } \cup {[slot |-> slot, fillers |-> fillers]}

\* the reachability pass: everything the stack traversal from 'START' pops
RECURSIVE ReachFrom(_, _, _)
ReachFrom(ch, stack, visit_items) ==
  IF stack \subseteq visit_items THEN visit_items
  ELSE LET next == stack \ visit_items
       IN  ReachFrom(ch,
                     UNION { Range(production) :
                               production \in UNION { ChartAt(ch, item) : item \in next } },
                     visit_items \cup next)

Reach(ch) == ReachFrom(ch, {START}, {})

\* only 'START' and closed items get an entry
Retained(visit_items) ==
  { item \in visit_items : item = START \/ closed(item) }

\* faulty variant: groups the first antecedents instead of the second
RegroupFirst(rp, prods, first) ==
  Put(rp, Slot(outside_symbol(first), outside_nt_index(first)),
      { x[1] : x \in prods })

\* a binary split: the second antecedents, grouped under the slot that the
\* first antecedent of the first listed production waits on
Regroup(rp, prods, first) ==
  Put(rp, Slot(outside_symbol(first), outside_nt_index(first)),
      { x[2] : x \in prods })

\* the backward walk of one retained item: every real_productions it can end
\* with, over the orders in which the sets of productions can be listed and
\* popped
RECURSIVE Walk(_, _, _)
Walk(ch, pitem, rp) ==
  LET prods == ChartAt(ch, pitem)
      lefts == { x[1] : x \in prods }
      lengths == { Len(x) : x \in prods }
  IN  IF prods = {} THEN {Outcome("none", rp)}
      ELSE IF pitem = START
      THEN {Outcome("none", Put(rp, StartSlot, UNION { Range(x) : x \in prods }))}
      ELSE IF pitem.rule.symbol = "PARTIAL"
      THEN IF Cardinality(prods) = 1
           THEN {Outcome("AttributeError", {})}
           ELSE {Outcome("AssertionError", {})}
      ELSE IF Cardinality(lengths) # 1 THEN {Outcome("AssertionError", {})}
      ELSE LET split_len == CHOOSE n \in lengths : TRUE
           IN  IF split_len # 1 /\ split_len # 2
               THEN {Outcome("AssertionError", {})}
               ELSE UNION { Walk(ch, left,
                                 IF split_len # 1 THEN Regroup(rp, prods, first)
                                 ELSE rp) :
                              first \in lefts, left \in lefts }

\* faulty variant: stores the entry without looking at real_productions
KeepEntryAlways(forest, item, rp) ==
  forest \cup {[key |-> item, prods |-> rp]}

\* cky_chart[item] = real_productions, only when it is not empty
KeepEntry(forest, item, rp) ==
  IF rp # {} THEN forest \cup {[key |-> item, prods |-> rp]} ELSE forest

RECURSIVE Regrouped(_, _, _)
Regrouped(ch, todo, forest) ==
  IF todo = {} THEN {Outcome("none", forest)}
  ELSE LET item == CHOOSE x \in todo : TRUE
       IN  UNION { IF w.exc # "none" THEN {Outcome(w.exc, {})}
                   ELSE Regrouped(ch, todo \ {item}, KeepEntry(forest, item, w.value)) :
                   w \in Walk(ch, item, {}) }

\* every forest cky_chart can return for a raw chart, or the exception
cky_chart(ch) == Regrouped(ch, Retained(Reach(ch)), {})

(***************************************************************************)
(* The entry points.                                                       *)
(***************************************************************************)
\* parse_graphs / a caller of parse: cky_chart on the raw chart, the forest
\* is handed to the caller
CkyChart ==
  /\ pc = "parsed"
  /\ \E out \in cky_chart(chart) :
       IF out.exc = "none"
       THEN /\ yielded' = Append(yielded, out.value)
            /\ pc' = IF stream # <<>> THEN "ready" ELSE "done"
            /\ UNCHANGED raised
       ELSE /\ raised' = out.exc
            /\ pc' = "raised"
            /\ UNCHANGED yielded
  /\ UNCHANGED <<entry, inputs, grammar, stream, string, graph>>
  /\ UNCHANGED engine

\* parse_strings: the first statement of the generator body calls
\* make_string_filter_cache, which the module does not define
ParseStringsNext ==
  /\ pc = "ready"
  /\ entry = "parse_strings"
  /\ raised' = "NameError"
  /\ pc' = "raised"
  /\ UNCHANGED <<entry, inputs, grammar, stream, string, graph, yielded>>
  /\ UNCHANGED engine

(***************************************************************************)
(* Specification.                                                          *)
(***************************************************************************)
\* the state after Parser(grammar)
Init ==
  /\ grammar \in Grammars(StringRules) \cup Grammars(GraphRules)
                   \cup Grammars(SyncRules)
  /\ entry = "none"
  /\ inputs = <<>>
  /\ stream = <<>>
  /\ string = NoString
  /\ graph = NoGraph
  /\ pc = "new"
  /\ raised = "none"
  /\ queue = <<>>
  /\ pending = {}
  /\ visited = {}
  /\ attempted = {}
  /\ chart = {}
  /\ nonterminal_lookup = {}
  /\ reverse_lookup = {}
  /\ success = FALSE
  /\ calls = EmptyBag
  /\ woken = FALSE
  /\ skipped = FALSE
  /\ yielded = <<>>

\* the caller creates one of the generators, or is about to call parse
Call(name, iterator) ==
  /\ pc = "new"
  /\ entry' = name
  /\ inputs' = iterator
  /\ stream' = iterator
  /\ pc' = "ready"
  /\ UNCHANGED <<grammar, string, graph, raised, yielded>>
  /\ UNCHANGED engine

CallParseGraphs ==
  /\ grammar \subseteq GraphRules
  /\ \E iterator \in GraphStreams : Call("parse_graphs", iterator)

CallParseStrings ==
  /\ grammar \subseteq StringRules
  /\ \E iterator \in StringStreams : Call("parse_strings", iterator)

CallParse ==
  \E input \in { Input(str, NoGraph) : str \in Strings } \cup SyncInputs :
    /\ grammar \subseteq (IF input.graph = NoGraph THEN StringRules ELSE SyncRules)
    /\ Call("parse", <<input>>)

Next ==
  \/ CallParseGraphs
  \/ CallParseStrings
  \/ CallParse
  \/ ParseBegin
  \/ HandleClosed
  \/ HandleComplete
  \/ HandleShift
  \/ ParseReturn
  \/ CkyChart
  \/ ParseStringsNext

Spec == Init /\ [][Next]_vars

\* parse("", None): the empty string, no graph, over a string grammar
CallParseEmptyString ==
  /\ grammar \subseteq StringRules
  /\ Call("parse", <<Input(NoString, NoGraph)>>)

NextEmptyString ==
  \/ CallParseEmptyString
  \/ ParseBegin
  \/ HandleClosed
  \/ HandleComplete
  \/ HandleShift
  \/ ParseReturn
  \/ CkyChart

EmptyStringSpec == Init /\ [][NextEmptyString]_vars

\* `while queue` keeps iterating: an iteration that can run does run
LoopStep == HandleClosed \/ HandleComplete \/ HandleShift
FairSpec == Init /\ [][Next]_vars /\ WF_vars(LoopStep)

(***************************************************************************)
(* Reference notions the properties are stated against.                    *)
(***************************************************************************)
\* the positions where rhs[p..] can end when it starts at position i, given
\* the triples <<symbol, i, k>> already known to be derivable
RECURSIVE Ends(_, _, _, _, _)
Ends(rhs, p, i, known, str) ==
  IF p > Len(rhs) THEN {i}
  ELSE IF rhs[p] \in Nonterminals
  THEN UNION { Ends(rhs, p + 1, k, known, str) :
                 k \in { x \in i..Len(str) : <<rhs[p], i, x>> \in known } }
  ELSE IF i < Len(str) /\ str[i + 1] = rhs[p]
  THEN Ends(rhs, p + 1, i + 1, known, str)
  ELSE {}

RECURSIVE Derivable(_, _, _)
Derivable(g, str, known) ==
  LET more == known \cup
                { <<r.symbol, i, k>> :
                    r \in g, i \in 0..Len(str), k \in 0..Len(str) }
      step == { t \in more :
                  \E r \in g : /\ r.symbol = t[1]
                               /\ t[3] \in Ends(r.string, 1, t[2], known, str) }
  IN  IF step \subseteq known THEN known ELSE Derivable(g, str, known \cup step)

\* the start symbol derives the whole string under the grammar
Derives(g, str) == <<start_symbol, 0, Len(str)>> \in Derivable(g, str, {})

StringOnly == string # NoString /\ graph = NoGraph
GraphOnly == string = NoString /\ graph # NoGraph
Synchronous == string # NoString /\ graph # NoGraph

\* the forest of the parse call that ran last
Yielded == pc \in {"ready", "done"} /\ yielded # <<>>
LastForest == yielded[Len(yielded)]

(***************************************************************************)
(* C1. String-only parse of a non-empty string: when parse returns, the    *)
(* goal key 'START' has a production if and only if the start symbol       *)
(* derives the whole input string.                                          *)
(***************************************************************************)
C1_GoalIffDerivable ==
  (pc = "parsed" /\ StringOnly) =>
    (ChartAt(chart, START) # {} <=> Derives(grammar, string))

\* a successful string parse that needed a wake-up
C1_Witness ==
  /\ pc = "parsed" /\ StringOnly
  /\ ChartAt(chart, START) # {}
  /\ woken
  /\ Len(string) >= 2

(***************************************************************************)
(* C2. At every point of the search every production under 'START' names   *)
(* exactly one item; that item is closed, its rule's symbol is the start    *)
(* symbol and it covers the whole input (string: j - i is the string        *)
(* length; graph: as many matched edges as the graph has; synchronous:      *)
(* both).                                                                   *)
(***************************************************************************)
CoversInput(item) ==
  /\ string # NoString => item.j - item.i = Len(string)
  /\ graph # NoGraph => Cardinality(item.shifted) = Cardinality(graph)

C2_GoalCoversInput ==
  \A prod \in ChartAt(chart, START) :
    /\ Len(prod) = 1
    /\ closed(prod[1])
    /\ prod[1].rule.symbol = start_symbol
    /\ CoversInput(prod[1])

\* an item is attached to the goal while a closed item of the start symbol
\* that does not cover the input was visited and left out
C2_Witness ==
  /\ ChartAt(chart, START) # {}
  /\ \E item \in nonterminal_lookup :
       /\ item.rule.symbol = start_symbol
       /\ ~CoversInput(item)

(***************************************************************************)
(* C5. can_complete is evaluated at most once for any ordered pair          *)
(* (open item, closed candidate) within one parse call.                     *)
(***************************************************************************)
C5_AttemptedOnce ==
  /\ \A pair \in BagToSet(calls) : CopiesIn(pair, calls) = 1
  /\ BagToSet(calls) = attempted

\* an open item was popped again after a wake-up and passed over a pair
C5_Witness == pc = "loop" /\ woken /\ skipped /\ calls # EmptyBag

(***************************************************************************)
(* C3. The agenda loop terminates: once the loop runs, the queue            *)
(* eventually becomes empty, wake-up re-enqueues of visited items           *)
(* notwithstanding.  Checked under FairSpec (the loop keeps stepping).      *)
(***************************************************************************)
C3_LoopTerminates == (pc = "loop") ~> (queue = <<>>)

\* a loop that re-enqueued visited items has run to its end
C3_Witness == pc = "parsed" /\ woken /\ queue = <<>>

(***************************************************************************)
(* C4. Every key and every filler of the pruned chart occurs in the raw    *)
(* chart and is derivable from a grammar axiom by a finite chain of valid  *)
(* shift / complete steps that parse recorded.                             *)
(***************************************************************************)
ForestKeys(forest) == { e.key : e \in forest }
Fillers(forest, key) ==
  UNION { p.fillers : p \in UNION { e.prods : e \in { x \in forest : x.key = key } } }
ForestItems(forest) ==
  (ForestKeys(forest) \cup UNION { Fillers(forest, k) : k \in ForestKeys(forest) })
    \ {START}

RawItems(ch) == { e.key : e \in ch } \cup UNION { Range(e.prod) : e \in ch }

\* the recorded production is a step of the item algebra that yields its key
ValidStep(e) ==
  IF Len(e.prod) = 2
  THEN can_complete(e.prod[1], e.prod[2]) /\ e.key = complete(e.prod[1], e.prod[2])
  ELSE LET item == e.prod[1]
       IN  /\ ~closed(item) /\ ~outside_is_nonterminal(item)
           /\ \/ /\ ~StringClosed(item)
                 /\ \E index \in 0..(Len(string) - 1) :
                      /\ string[index + 1] = outside_word(item)
                      /\ can_shift_word(item, outside_word(item), index)
                      /\ e.key = shift_word(item, outside_word(item), index)
              \/ /\ ~GraphClosed(item)
                 /\ \E edge \in graph :
                      /\ can_shift_edge(item, edge)
                      /\ e.key = shift_edge(item, edge)

RECURSIVE DerivedFrom(_, _)
DerivedFrom(ch, known) ==
  LET more == { e.key : e \in { x \in ch : /\ x.key # START
                                           /\ Range(x.prod) \subseteq known
                                           /\ ValidStep(x) } }
  IN  IF more \subseteq known THEN known ELSE DerivedFrom(ch, known \cup more)

Axioms == { Axiom(axiom_class(string, graph), rule) : rule \in grammar }

C4_ForestFromRawChart ==
  Yielded =>
    /\ ForestItems(LastForest) \subseteq RawItems(chart)
    /\ ForestItems(LastForest) \subseteq DerivedFrom(chart, Axioms)

\* a forest with a key that has fillers, built by shifts and completions
C4_Witness ==
  /\ Yielded
  /\ \E k \in ForestKeys(LastForest) \ {START} :
       /\ Fillers(LastForest, k) # {}
       /\ \E e \in chart : Len(e.prod) = 1 /\ e.key # START /\ e.key \in Fillers(LastForest, k)

(***************************************************************************)
(* C6. The forest does not depend on the order in which unordered sets     *)
(* are iterated or popped: for the raw chart parse returned, every order   *)
(* cky_chart can follow gives the same forest.                              *)
(***************************************************************************)
C6_OrderIndependent ==
  pc = "parsed" =>
    \A one \in cky_chart(chart) : \A other \in cky_chart(chart) : one = other

(***************************************************************************)
(* C7. Both generators yield exactly one forest per input they have taken  *)
(* from the iterator, in input order, and never raise.                     *)
(***************************************************************************)
C7_OneForestPerInput ==
  entry \in {"parse_graphs", "parse_strings"} =>
    /\ raised = "none"
    /\ pc \in {"ready", "done"} => Len(yielded) = Len(inputs) - Len(stream)
    /\ pc = "done" => Len(yielded) = Len(inputs)

(***************************************************************************)
(* C8. When no item satisfies the goal test, parse returns normally,       *)
(* cky_chart returns a forest with no keys at all, and the generator goes  *)
(* on to the next input of the stream.                                      *)
(***************************************************************************)
C8_FailureIsEmptyForest ==
  /\ (pc = "parsed" /\ ~success) =>
       \A out \in cky_chart(chart) : out = Outcome("none", {})
  /\ (Yielded /\ ~success) =>
       /\ LastForest = {}
       /\ raised = "none"
       /\ stream # <<>> => pc = "ready"

\* a failed parse yielded an empty forest and the generator waits for the
\* next input, although closed items were found
C8_Witness ==
  /\ Yielded /\ ~success
  /\ pc = "ready" /\ entry = "parse_graphs" /\ stream # <<>>
  /\ nonterminal_lookup # {}
  /\ LastForest = {}

(***************************************************************************)
(* C9. The relation `key -> filler listed in the key's entry' of the       *)
(* pruned chart is acyclic.                                                 *)
(***************************************************************************)
RECURSIVE Below(_, _, _)
Below(forest, frontier, seen) ==
  LET next == UNION { Fillers(forest, k) : k \in frontier }
  IN  IF next \subseteq seen THEN seen ELSE Below(forest, next \ seen, seen \cup next)

\* the items reachable from key by one or more filler steps
Descendants(forest, key) == Below(forest, {key}, {})

Acyclic(forest) ==
  \A k \in ForestKeys(forest) : k \notin Descendants(forest, k)

\* C9 as stated: acyclic for every grammar
C9_Acyclic == Yielded => Acyclic(LastForest)

\* symbols that derive the empty string / the empty graph
RECURSIVE NullableFrom(_, _)
NullableFrom(g, known) ==
  LET more == { r.symbol : r \in { x \in g : /\ Range(x.string) \subseteq known
                                            /\ { e.lab : e \in Range(x.edges) } \subseteq known } }
  IN  IF more \subseteq known THEN known ELSE NullableFrom(g, known \cup more)

Nullable(g) == NullableFrom(g, {})

\* one side of a rule consists of the slot at position p and of nullable
\* symbols only
UnitSide(labels, p, g) ==
  \A q \in 1..Len(labels) : q # p => labels[q] \in Nullable(g)

\* sym -> sub: a rule of sym can derive a single sub and nothing else
UnitLink(g, sym, sub) ==
  \E r \in g :
    /\ r.symbol = sym
    /\ \/ /\ r.edges = <<>>
          /\ \E p \in 1..Len(r.string) : r.string[p] = sub /\ UnitSide(r.string, p, g)
       \/ /\ r.string = <<>>
          /\ \E p \in 1..Len(r.edges) :
               EdgeLabels(r)[p] = sub /\ UnitSide(EdgeLabels(r), p, g)
       \/ /\ \E p \in 1..Len(r.string) : r.string[p] = sub /\ UnitSide(r.string, p, g)
          /\ \E p \in 1..Len(r.edges) :
               EdgeLabels(r)[p] = sub /\ UnitSide(EdgeLabels(r), p, g)

RECURSIVE UnitReach(_, _, _)
UnitReach(g, frontier, seen) ==
  LET next == { sub \in Nonterminals : \E sym \in frontier : UnitLink(g, sym, sub) }
  IN  IF next \subseteq seen THEN seen ELSE UnitReach(g, next \ seen, seen \cup next)

\* some nonterminal derives itself in one or more steps
CyclicGrammar(g) == \E sym \in Nonterminals : sym \in UnitReach(g, {sym}, {})

\* C9 amended: the relation is acyclic whenever no nonterminal of the
\* grammar derives itself
C9_AcyclicUnlessGrammarCyclic ==
  (Yielded /\ ~CyclicGrammar(grammar)) => Acyclic(LastForest)

\* a forest over a grammar with a unary rule that is not cyclic: the goal
\* lists a key, and that key lists fillers
C9_Witness ==
  /\ Yielded /\ ~CyclicGrammar(grammar)
  /\ \E r \in grammar : Len(r.string) = 1 /\ r.string[1] \in Nonterminals
  /\ \E k \in ForestKeys(LastForest) \ {START} :
       /\ k \in Fillers(LastForest, START)
       /\ Fillers(LastForest, k) # {}

(***************************************************************************)
(* C10. Every item reachable from the goal in the pruned chart is the goal *)
(* key, or a key with at least one grouped production, or an item without  *)
(* entry whose rule is terminal (no nonterminal in its right-hand side).   *)
(***************************************************************************)
is_terminal(rule) ==
  /\ Range(rule.string) \cap Nonterminals = {}
  /\ { e.lab : e \in Range(rule.edges) } \cap Nonterminals = {}

HasEntry(forest, item) ==
  \E e \in forest : e.key = item /\ e.prods # {} /\ \A p \in e.prods : p.fillers # {}

RuleSAA == Rule(1, "S", <<"A", "A">>, <<>>)
RuleAa == Rule(2, "A", <<"a">>, <<>>)

\* the string item of a rule with sdot elements consumed over [i, j)
CfgSpan(rule, sdot, i, j) ==
  [Axiom("cfg", rule) EXCEPT !.sdot = sdot, !.i = i, !.j = j]

ExampleForest ==
  { [key |-> START,
     prods |-> {[slot |-> StartSlot, fillers |-> {CfgSpan(RuleSAA, 2, 0, 2)}]}],
    [key |-> CfgSpan(RuleSAA, 2, 0, 2),
     prods |-> {[slot |-> Slot("A", 0), fillers |-> {CfgSpan(RuleAa, 1, 0, 1)}],
                [slot |-> Slot("A", 1), fillers |-> {CfgSpan(RuleAa, 1, 1, 2)}]}] }

C11_ExampleGrammar ==
  (grammar = {RuleSAA, RuleAa} /\ StringOnly) =>
    /\ (pc = "parsed" /\ string = <<"a", "a">>) =>
         /\ ChartAt(chart, START) = {<<CfgSpan(RuleSAA, 2, 0, 2)>>}
         /\ cky_chart(chart) = {Outcome("none", ExampleForest)}
    /\ (Yielded /\ string = <<"a", "a">>) =>
         /\ LastForest = ExampleForest
         /\ \A item \in Fillers(LastForest, START) : item.j - item.i = 2
    /\ (pc = "parsed" /\ string = <<"a">>) => ChartAt(chart, START) = {}
    /\ (Yielded /\ string = <<"a">>) => Fillers(LastForest, START) = {}

\* the parse of "aa" has handed its forest to the caller
C11_Witness ==
  /\ grammar = {RuleSAA, RuleAa} /\ Yielded
  /\ string = <<"a", "a">>
  /\ CfgSpan(RuleSAA, 2, 0, 2) \in ForestKeys(LastForest)

(***************************************************************************)
(* C12. Parsing the empty string (no graph) with a grammar that has no     *)
(* epsilon rule is an ordinary parse failure: the call runs to its end,    *)
(* nothing is recorded under the goal key, and the forest is empty.        *)
(* Checked under EmptyStringSpec.                                          *)
(***************************************************************************)
NoEpsilonRule(g) == \A rule \in g : rule.string # <<>>

C12_EmptyStringFails ==
  (inputs = <<Input(NoString, NoGraph)>> /\ NoEpsilonRule(grammar)) =>
    /\ raised = "none"
    /\ ChartAt(chart, START) = {}
    /\ Yielded => LastForest = {}

(***************************************************************************)
(* C13. In a parse with a graph no derived item claims an input edge       *)
(* twice: the matched edges of an item made by complete are the disjoint   *)
(* union of what its two antecedents matched, those of an item made by an  *)
(* edge shift are its antecedent's plus one edge that was not matched yet; *)
(* an item attached to the goal has matched every input edge, each once.   *)
(* Every closed item that covers the input is listed under the goal on its *)
(* own, also when another rule matched the same edges, and a production    *)
(* never mixes rules.                                                      *)
(***************************************************************************)
DisjointStep(e) ==
  LET first == e.prod[1]
  IN  /\ first.rule = e.key.rule
      /\ e.key.shifted \subseteq graph
      /\ IF Len(e.prod) = 2
         THEN /\ first.shifted \cap e.prod[2].shifted = {}
              /\ e.key.shifted = first.shifted \cup e.prod[2].shifted
         ELSE \/ /\ e.key.gdot = first.gdot + 1
                 /\ \E edge \in graph \ first.shifted :
                      e.key.shifted = first.shifted \cup {edge}
              \/ /\ e.key.gdot = first.gdot
                 /\ e.key.shifted = first.shifted

\* the closed items of the start symbol that cover the input
GoalItems ==
  { item \in nonterminal_lookup :
      item.rule.symbol = start_symbol /\ CoversInput(item) }

C13_EdgesClaimedOnce ==
  graph # NoGraph =>
    /\ \A e \in chart : e.key # START => DisjointStep(e)
    /\ \A prod \in ChartAt(chart, START) : prod[1].shifted = graph
    /\ ChartAt(chart, START) = { <<item>> : item \in GoalItems }
    /\ Yielded => Fillers(LastForest, START) = GoalItems

\* two rules matched the same edge and both items are listed under the goal
C13_Witness ==
  /\ graph # NoGraph /\ Yielded
  /\ \E x \in Fillers(LastForest, START) : \E y \in Fillers(LastForest, START) :
       x.rule # y.rule /\ x.shifted = y.shifted /\ x.shifted = graph

\* a candidate whose nodes fit was turned down because it had matched an
\* edge the open item had matched already
OverlapRejected ==
  \E pair \in attempted :
    /\ pair[1].shifted \cap pair[2].shifted # {}
    /\ CanMatch(pair[1].nmap, outside_redge(pair[1]), pair[2].nmap[1], pair[2].nmap[2])

(***************************************************************************)
(* C14. At every iteration boundary of the agenda loop the queue holds no  *)
(* item twice and `pending` is exactly the set of the items in the queue;  *)
(* a shift or complete step never appends an item that is visited: only    *)
(* the wake-up of the closed branch enqueues a visited item again.         *)
(***************************************************************************)
QueueMatchesPending ==
  pc = "loop" =>
    /\ Range(queue) = pending
    /\ Cardinality(pending) = Len(queue)

\* what one iteration appended behind the items that were waiting already
Appended == { queue'[n] : n \in Len(queue)..Len(queue') }

OnlyWakeUpReenqueues ==
  (pc = "loop" /\ queue # <<>> /\ ~closed(Head(queue)))
    => Appended \cap visited' = {}

C14_QueueDiscipline ==
  [](QueueMatchesPending) /\ [][OnlyWakeUpReenqueues]_vars

\* a visited item waits in the queue again after a wake-up, together with
\* other items, and completions have been made
C14_Witness ==
  /\ pc = "loop" /\ woken
  /\ Len(queue) >= 2
  /\ Range(queue) \cap visited # {}
  /\ \E e \in chart : e.key # START /\ Len(e.prod) = 2 /\ e.key \in visited

(***************************************************************************)
(* C15. In every raw chart parse produces, the productions recorded for a  *)
(* key other than 'START' all have the same number of antecedents, 1 (a    *)
(* shift) or 2 (a complete); so the assertions len(lengths) == 1 and       *)
(* split_len == 2 of cky_chart do not fail on the chart parse returned.    *)
(***************************************************************************)
C15_ProductionArity ==
  /\ \A e \in chart : e.key # START =>
       /\ Len(e.prod) \in {1, 2}
       /\ \A prod \in ChartAt(chart, e.key) : Len(prod) = Len(e.prod)
  /\ pc = "parsed" =>
       \A out \in cky_chart(chart) : out.exc # "AssertionError"

\* a chart with a key that has several complete productions, walked by
\* cky_chart down to shift productions
C15_Witness ==
  /\ Yielded
  /\ \E e \in chart :
       /\ e.key \in ForestKeys(LastForest) \ {START}
       /\ Len(e.prod) = 2
       /\ Cardinality(ChartAt(chart, e.key)) >= 2
  /\ \E e \in chart : e.key # START /\ Len(e.prod) = 1

(***************************************************************************)
(* C16. When a closed item of symbol S is popped, the step enters it in    *)
(* the index of closed items, and at the end of the step every item        *)
(* registered as waiting on S is pending.  Hence a woken item is popped    *)
(* after the registration it reacts to and then finds the closed item      *)
(* among its candidates: at every boundary, a registered waiting item and  *)
(* a registered closed item of the symbol it waits on have been tried      *)
(* together, or the waiting item is pending.                               *)
(***************************************************************************)
Waiting(sym) == { ritem \in reverse_lookup : outside_symbol(ritem) = sym }

ClosedStepWakes ==
  (pc = "loop" /\ queue # <<>> /\ closed(Head(queue))) =>
    /\ Head(queue) \in nonterminal_lookup'
    /\ Waiting(Head(queue).rule.symbol) \subseteq pending'

WokenFindsClosed ==
  pc = "loop" =>
    \A oitem \in nonterminal_lookup : \A ritem \in Waiting(oitem.rule.symbol) :
      <<ritem, oitem>> \in attempted \/ ritem \in pending

C16_WakeUpAfterRegistration ==
  [](WokenFindsClosed) /\ [][ClosedStepWakes]_vars

\* an item that was visited before is pending again, and a closed item of
\* the symbol it waits on is registered that it has not been tried with
C16_Witness ==
  /\ pc = "loop" /\ woken
  /\ \E oitem \in nonterminal_lookup :
       \E ritem \in Waiting(oitem.rule.symbol) \cap visited :
         ritem \in pending /\ <<ritem, oitem>> \notin attempted

(***************************************************************************)
(* C17. When the backward walk of cky_chart reaches an item whose rule     *)
(* symbol is 'PARTIAL' and which has recorded productions, the walk stops, *)
(* the item's single production is re-exposed as the retained item's       *)
(* production set, and extraction returns a forest.                        *)
(***************************************************************************)
\* the retained items whose walk meets the 'PARTIAL' branch: the walk
\* follows first antecedents, which are items of the retained item's rule
PartialRetained(ch) ==
  { item \in Retained(Reach(ch)) \ {START} :
      item.rule.symbol = "PARTIAL" /\ ChartAt(ch, item) # {} }

C17_PartialReexposed ==
  /\ (pc = "parsed" /\ PartialRetained(chart) # {}) =>
       \A out \in cky_chart(chart) :
         /\ out.exc = "none"
         /\ \A item \in PartialRetained(chart) : item \in ForestKeys(out.value)
  /\ raised # "AttributeError"

(***************************************************************************)
(* C18. The grouped productions of a retained item keep all the ambiguity  *)
(* of the raw chart: for every retained closed item X and every complete   *)
(* step on a chain of recorded productions from X's axiom to X, the closed *)
(* second antecedent of the step is among the fillers of X's entry under   *)
(* the (outside symbol, slot index) of the step, also when X has           *)
(* productions with several distinct first antecedents.                    *)
(***************************************************************************)
\* the items on the chains of first antecedents that end in the given items
RECURSIVE ChainFrom(_, _)
ChainFrom(ch, items) ==
  LET more == { e.prod[1] : e \in { x \in ch : x.key \in items /\ x.key # START } }
  IN  IF more \subseteq items THEN items ELSE ChainFrom(ch, items \cup more)

\* the complete steps on the chains from X's axiom to X
ChainCompletes(ch, X) ==
  { e \in ch : e.key \in ChainFrom(ch, {X}) /\ e.key # START /\ Len(e.prod) = 2 }

ListedUnder(forest, X, slot, filler) ==
  \E en \in forest :
    /\ en.key = X
    /\ \E p \in en.prods : p.slot = slot /\ filler \in p.fillers

C18_AmbiguityPreserved ==
  Yielded =>
    \A X \in Retained(Reach(chart)) \ {START} :
      \A e \in ChainCompletes(chart, X) :
        ListedUnder(LastForest, X,
                    Slot(outside_symbol(e.prod[1]), outside_nt_index(e.prod[1])),
                    e.prod[2])

(***************************************************************************)
(* C19. When the agenda loop has ended the search is closed under          *)
(* completion: for every visited open item w whose next element is a       *)
(* nonterminal and every visited closed item c of that symbol, the pair    *)
(* (w, c) is in `attempted`, whichever of the two was popped first; and if *)
(* can_complete(w, c) holds, the production (w, c) is recorded under       *)
(* complete(w, c) and that item is visited.                                *)
(***************************************************************************)
C19_ClosedUnderCompletion ==
  pc = "parsed" =>
    \A w \in { x \in visited : ~closed(x) /\ outside_is_nonterminal(x) } :
      \A c \in { x \in visited : closed(x) /\ x.rule.symbol = outside_symbol(w) } :
        /\ <<w, c>> \in attempted
        /\ can_complete(w, c) =>
             /\ Entry(complete(w, c), <<w, c>>) \in chart
             /\ complete(w, c) \in visited

\* the loop has ended after wake-ups, with pairs that could be completed
\* and pairs that could not
C19_Witness ==
  /\ pc = "parsed" /\ woken
  /\ \E pair \in attempted : can_complete(pair[1], pair[2])
  /\ \E pair \in attempted : ~can_complete(pair[1], pair[2])

(***************************************************************************)
(* C20. cky_chart terminates on every raw chart parse produces: every      *)
(* first antecedent recorded for an item is an item of the same rule with  *)
(* strictly less of the right-hand side consumed, so the backward walk     *)
(* pitem = lefts.pop() of a retained item reaches an item without          *)
(* productions (or 'START') within as many steps as the retained item has  *)
(* consumed, whichever first antecedent each pop returns.                  *)
(***************************************************************************)
\* how much of its rule's right-hand side an item has consumed
Consumed(item) == item.sdot + item.gdot

\* every walk from pitem leaves the `while True` loop within n moves down
RECURSIVE WalkEnds(_, _, _)
WalkEnds(ch, pitem, n) ==
  IF ChartAt(ch, pitem) = {} \/ pitem = START \/ pitem.rule.symbol = "PARTIAL"
  THEN TRUE
  ELSE IF n = 0 THEN FALSE
  ELSE \A left \in { x[1] : x \in ChartAt(ch, pitem) } : WalkEnds(ch, left, n - 1)

C20_WalkTerminates ==
  /\ \A e \in chart : e.key # START =>
       /\ e.prod[1].rule = e.key.rule
       /\ Consumed(e.prod[1]) < Consumed(e.key)
  /\ pc = "parsed" =>
       \A item \in Retained(Reach(chart)) : WalkEnds(chart, item, Consumed(item))

\* cky_chart has returned after walks of two moves from an item that has
\* productions with several first antecedents
C20_Witness ==
  /\ Yielded
  /\ \E item \in ForestKeys(LastForest) \ {START} :
       /\ Consumed(item) >= 2
       /\ Cardinality({ x[1] : x \in ChartAt(chart, item) }) >= 2

====
